---- MODULE Spec2Model ----
\* Model of src/hardware/weather_station_280.py: the boot sequence of main
\* (known-network join, access-point fallback with the configuration server,
\* broker session), and the periodic timer callbacks that sample the sensor and
\* publish, including the reconnect-on-publish-failure loop.
EXTENDS Integers, Sequences, FiniteSets, TLC

\* ---------------------------------------------------------------------------
\* Bounds of the exploration (not program constants)
\* ---------------------------------------------------------------------------
MaxTicks == 122        \* timer ticks explored after the timer is installed
MaxAnomalies == 1      \* ticks whose sensor read fails or returns a zero field
MaxPubFail == 1        \* publish calls that fail on a connected client
MaxReconnect == 7      \* failing connect calls explored inside one reconnect_mqtt
MaxAccepts == 3        \* connections the configuration server is offered
MaxRecursionErrors == 1 \* reconnect_mqtt calls per boot in which no connect ever succeeds

\* ---------------------------------------------------------------------------
\* Program constants
\* ---------------------------------------------------------------------------
WIFI_RETRIES == 5
WIFI_SLEEP == 1
MQTT_RETRIES == 5
MQTT_SLEEP == 5
RECONNECT_SLEEP == 5
BATCH_SIZE == 60
FREQUENT_PERIOD == 1000
INFREQUENT_PERIOD == 60000
BATCH_PERIOD == 1000
\* bits in the significand of a float (binary64)
FLOAT_BITS == 53
\* frames the interpreter allows on its stack (sys.getrecursionlimit())
RECURSION_LIMIT == 1000
\* frames on the stack when send_mqtt calls reconnect_mqtt from a timer
\* callback: the module, main, the callback, send_mqtt
CALLBACK_FRAMES == 4
MQTT_TOPIC == "MQTT_TOPIC"
MQTT_TOPIC_DATA_COLLECTION == "MQTT_TOPIC_DATA_COLLECTION"

\* ---------------------------------------------------------------------------
\* Text: a bytes object is a sequence of byte values 0..255 and a string a
\* sequence of code points, indexed from 0 as in Python (element i of the text
\* is s[i + 1])
\* ---------------------------------------------------------------------------
\* the printable ASCII characters, code points 32 to 95 and 97 to 126 in order
\* (code point 96, the grave accent, cannot be written in a string here)
PrintableLow == <<
    " ", "!", "\"", "#", "$", "%", "&", "'", "(", ")", "*", "+", ",", "-", ".", "/",
    "0", "1", "2", "3", "4", "5", "6", "7", "8", "9", ":", ";", "<", "=", ">", "?",
    "@", "A", "B", "C", "D", "E", "F", "G", "H", "I", "J", "K", "L", "M", "N", "O",
    "P", "Q", "R", "S", "T", "U", "V", "W", "X", "Y", "Z", "[", "\\", "]", "^", "_" >>
PrintableHigh == <<
    "a", "b", "c", "d", "e", "f", "g", "h", "i", "j", "k", "l", "m", "n", "o", "p",
    "q", "r", "s", "t", "u", "v", "w", "x", "y", "z", "{", "|", "}", "~" >>

TAB == "\t"
CR == "\r"
LF == "\n"

\* ord(c) of a character written as a one-character string
Ord(c) ==
    IF c = TAB THEN 9
    ELSE IF c = LF THEN 10
    ELSE IF c = CR THEN 13
    ELSE IF \E i \in 1..Len(PrintableLow) : PrintableLow[i] = c
       THEN 31 + (CHOOSE i \in 1..Len(PrintableLow) : PrintableLow[i] = c)
    ELSE 96 + (CHOOSE i \in 1..Len(PrintableHigh) : PrintableHigh[i] = c)

\* the code points of a text written as a sequence of one-character strings
Chars(s) == [ i \in 1..Len(s) |-> Ord(s[i]) ]

BSL == Ord("\\")
SQUOTE == Ord("'")
DQUOTE == Ord("\"")

SetMin(S) == CHOOSE x \in S : \A y \in S : x <= y

\* str.find(sub, start): lowest index >= start where sub occurs, else -1
Find(s, sub, start) ==
    LET cands == { i \in start..(Len(s) - Len(sub)) :
                      \A j \in 1..Len(sub) : s[i + j] = sub[j] }
    IN IF cands = {} THEN -1 ELSE SetMin(cands)

\* one bound of a slice: a negative bound counts from the end, then clamp
SliceBound(n, i) ==
    LET k == IF i < 0 THEN i + n ELSE i
    IN IF k < 0 THEN 0 ELSE IF k > n THEN n ELSE k

\* s[a:b]
Slice(s, a, b) ==
    LET lo == SliceBound(Len(s), a)
        hi == SliceBound(Len(s), b)
    IN IF lo >= hi THEN << >> ELSE [ i \in 1..(hi - lo) |-> s[lo + i] ]

\* a hexadecimal digit 0..15 as a lower-case character
HexDigit(d) == IF d < 10 THEN Ord("0") + d ELSE Ord("a") + (d - 10)

\* the delimiter str() puts around the bytes: a double quote when they hold
\* a single quote and no double quote, else a single quote
QuoteOf(b) ==
    IF (\E i \in 1..Len(b) : b[i] = SQUOTE) /\ ~(\E i \in 1..Len(b) : b[i] = DQUOTE)
       THEN DQUOTE ELSE SQUOTE

\* the escape of one byte in the text form of a bytes object delimited by quote
EscapeByte(c, quote) ==
    IF c = quote \/ c = BSL THEN <<BSL, c>>
    ELSE IF c = 9 THEN <<BSL, Ord("t")>>
    ELSE IF c = 10 THEN <<BSL, Ord("n")>>
    ELSE IF c = 13 THEN <<BSL, Ord("r")>>
    ELSE IF c < 32 \/ c > 126 THEN <<BSL, Ord("x"), HexDigit(c \div 16), HexDigit(c % 16)>>
    ELSE <<c>>

RECURSIVE EscapeBytes(_, _)
EscapeBytes(b, quote) ==
    IF b = << >> THEN << >> ELSE EscapeByte(Head(b), quote) \o EscapeBytes(Tail(b), quote)

\* str(request) of a bytes object: b'...' or b"...", with the delimiter,
\* the backslash and every byte outside 32..126 escaped
StrOfBytes(b) ==
    LET quote == QuoteOf(b)
    IN <<Ord("b"), quote>> \o EscapeBytes(b, quote) \o <<quote>>

MarkPOST == Chars(<<"P","O","S","T">>)
MarkSsid == Chars(<<"s","s","i","d","=">>)
MarkAmp == Chars(<<"&">>)
MarkPassword == Chars(<<"p","a","s","s","w","o","r","d","=">>)
MarkHttp == Chars(<<" ","H","T","T","P">>)

\* 'POST' in request_str
IsPost(request_str) == Find(request_str, MarkPOST, 0) >= 0

ParseCredentialsShortOffset(request_str) ==
    LET ssid_start == Find(request_str, MarkSsid, 0) + 4
        ssid_end == Find(request_str, MarkAmp, ssid_start)
        password_start == Find(request_str, MarkPassword, 0) + 9
        password_end == Find(request_str, MarkHttp, password_start)
    IN [ ssid |-> Slice(request_str, ssid_start, ssid_end),
         password |-> Slice(request_str, password_start, password_end) ]

\* the credentials serve_web cuts out of the request text
ParseCredentials(request_str) ==
    LET ssid_start == Find(request_str, MarkSsid, 0) + 5
        ssid_end == Find(request_str, MarkAmp, ssid_start)
        password_start == Find(request_str, MarkPassword, 0) + 9
        password_end == Find(request_str, MarkHttp, password_start)
    IN [ ssid |-> Slice(request_str, ssid_start, ssid_end),
         password |-> Slice(request_str, password_start, password_end) ]

\* requests a client of the configuration server may send
ReqPostFull == Chars(<<"P","O","S","T"," ","/"," ","H","T","T","P","/","1",".","1",CR,LF,CR,LF,"s","s","i","d","=","M","y","N","e","t","&","p","a","s","s","w","o","r","d","=","s","e","c","r","e","t"," ","H","T","T","P","/","1",".","1">>)
ReqPostBody == Chars(<<"P","O","S","T"," ","/"," ","H","T","T","P","/","1",".","1",CR,LF,CR,LF,"s","s","i","d","=","M","y","N","e","t","&","p","a","s","s","w","o","r","d","=","s","e","c","r","e","t">>)
ReqPostNoPassword == Chars(<<"P","O","S","T"," ","/"," ","H","T","T","P","/","1",".","1",CR,LF,CR,LF,"s","s","i","d","=","M","y","N","e","t">>)
ReqPostNoSsid == Chars(<<"P","O","S","T"," ","/"," ","H","T","T","P","/","1",".","1",CR,LF,CR,LF,"p","a","s","s","w","o","r","d","=","s","e","c","r","e","t">>)
ReqGet == Chars(<<"G","E","T"," ","/"," ","H","T","T","P","/","1",".","1",CR,LF,CR,LF>>)
ReqEmpty == << >>
ReqPostEarlySsid == Chars(<<"P","O","S","T"," ","/","?","s","s","i","d","=","x"," ","H","T","T","P","/","1",".","1",CR,LF,CR,LF,"s","s","i","d","=","M","y","N","e","t","&","p","a","s","s","w","o","r","d","=","s","e","c","r","e","t"," ","H","T","T","P","/","1",".","1">>)
ReqPostEarlyPassword == Chars(<<"P","O","S","T"," ","/","p","a","s","s","w","o","r","d","=","z","z"," ","H","T","T","P","/","1",".","1",CR,LF,CR,LF,"s","s","i","d","=","M","y","N","e","t","&","p","a","s","s","w","o","r","d","=","s","e","c","r","e","t"," ","H","T","T","P","/","1",".","1">>)
ReqPostOther == Chars(<<"P","O","S","T"," ","/"," ","H","T","T","P","/","1",".","1",CR,LF,CR,LF,"s","s","i","d","=","a","&","p","a","s","s","w","o","r","d","=","b"," ","H","T","T","P","/","1",".","1">>)
\* POST ssid=a<tab>b&password=c HTTP
ReqPostTab == Chars(<<"P","O","S","T"," ","s","s","i","d","=","a",TAB,"b","&","p","a","s","s","w","o","r","d","=","c"," ","H","T","T","P">>)
\* POST ssid=a'b&password=<byte 0><byte 233>"c HTTP
ReqPostBinary == Chars(<<"P","O","S","T"," ","s","s","i","d","=","a","'","b","&","p","a","s","s","w","o","r","d","=">>) \o <<0, 233>> \o Chars(<<"\"","c"," ","H","T","T","P">>)
\* POST ssid=it's&password=c HTTP
ReqPostQuote == Chars(<<"P","O","S","T"," ","s","s","i","d","=","i","t","'","s","&","p","a","s","s","w","o","r","d","=","c"," ","H","T","T","P">>)
Requests == {ReqPostFull, ReqPostBody, ReqPostNoPassword, ReqPostNoSsid, ReqGet, ReqEmpty,
             ReqPostEarlySsid, ReqPostEarlyPassword, ReqPostOther,
             ReqPostTab, ReqPostBinary, ReqPostQuote}

\* the credentials of the known network (config.SSID, config.PASSWORD), by name
KnownCredentials == [ ssid |-> Chars(<<"S","S","I","D">>),
                      password |-> Chars(<<"P","A","S","S","W","O","R","D">>) ]
NoCredentials == [ ssid |-> << >>, password |-> << >> ]

\* ---------------------------------------------------------------------------
\* Pure helpers of the program
\* ---------------------------------------------------------------------------
Strategies == {"frequent_small_payload", "infrequent_small_payload", "infrequent_large_payload"}

WifiLoopCondOffByOne(isconnected, rc) == ~isconnected /\ rc <= WIFI_RETRIES

\* loop condition of connect_wifi
WifiLoopCond(isconnected, rc) == ~isconnected /\ rc < WIFI_RETRIES

\* loop condition of connect_mqtt (client is None and retry_count < 5)
MqttLoopCond(cl, rc) == cl = "None" /\ rc < MQTT_RETRIES

ClientAlwaysTls(context) == "tls"

\* the client variable of connect_mqtt after one pass through the try block
\* whose constructor call returned: it is bound before client.connect() runs
ClientAfterConstruct(context) == IF context THEN "tls" ELSE "plain"

\* the except branch of reconnect_mqtt always recurses: after the n-th failed
\* connect of a reconnect_mqtt called with `frames` frames on the stack, the
\* retry runs while the interpreter has room for the next reconnect_mqtt
\* frame and the calls it makes (log and what log calls)
ReconnectRetries(n, frames) == n + frames + 3 < RECURSION_LIMIT

\* failed connects in a row after which the recursion of reconnect_mqtt ends
\* with RecursionError
ReconnectDepth(frames) ==
    SetMin({ n \in 1..RECURSION_LIMIT : ~ReconnectRetries(n, frames) })

CallbackReconnectDepth == ReconnectDepth(CALLBACK_FRAMES)

\* the break of serve_web sits inside the POST branch
ServeWebBreaks(is_post) == is_post

\* 2^e modulo n
RECURSIVE Pow2Mod(_, _)
Pow2Mod(e, n) == IF e = 0 THEN 1 % n ELSE (2 * Pow2Mod(e - 1, n)) % n

\* the k with 1000 * 2^k <= m < 1000 * 2^(k + 1), for m >= p = 1000 * 2^k0
RECURSIVE ExpUp(_, _, _)
ExpUp(m, k0, p) == IF 2 * p <= m THEN ExpUp(m, k0 + 1, 2 * p) ELSE k0

\* the same k for 0 < m < 1000, from mm = m * 2^j < 1000 * 2^j
RECURSIVE ExpDown(_, _)
ExpDown(mm, j) == IF mm >= 1000 THEN 0 - j ELSE ExpDown(2 * mm, j + 1)

\* binary exponent of m / 1000 (m > 0): 2^k <= m / 1000 < 2^(k + 1)
FloatExp(m) == IF m >= 1000 THEN ExpUp(m, 0, 1000) ELSE ExpDown(m, 0)

\* where the float nearest to m / 1000 (m > 0) lies: with e such that
\* m / 1000 * 2^e has FLOAT_BITS bits before the point, the fraction cut off
\* is ((m * 2^e) mod 1000) / 1000; the float is the value itself when that is
\* 0, below the value when it is under one half, above it otherwise
FloatSide(m) ==
    LET e == (FLOAT_BITS - 1) - FloatExp(m)
        rem == ((m % 1000) * Pow2Mod(e, 1000)) % 1000
    IN IF rem = 0 THEN "exact" ELSE IF rem < 500 THEN "below" ELSE "above"

\* round(x, 2) of the float x nearest to m thousandths, m >= 0, result in
\* hundredths: the float itself is rounded, so a decimal tie goes to the side
\* the float lies on, and half to even when the float is the tie exactly
Round2Abs(m) ==
    LET q == m \div 10
        r == m % 10
    IN IF r < 5 THEN q
       ELSE IF r > 5 THEN q + 1
       ELSE IF FloatSide(m) = "above" THEN q + 1
       ELSE IF FloatSide(m) = "below" THEN q
       ELSE IF q % 2 = 0 THEN q ELSE q + 1

\* round(x, 2) on a value given in thousandths, result in hundredths
Round2(m) == IF m < 0 THEN 0 - Round2Abs(0 - m) ELSE Round2Abs(m)

\* get_sensor_measurements on a driver reading {t, p}
GetSensorMeasurements(m) == [ t |-> Round2(m.t), p |-> Round2(m.p) ]

\* format_data
FormatData(temperature_data, pressure_data) ==
    [ temperature |-> temperature_data, pressure |-> pressure_data ]

\* truth value of a number
Truthy(x) == x # 0

\* if temperature and pressure
ShouldAppend(temperature, pressure) == Truthy(temperature) /\ Truthy(pressure)

\* if len(temperature_data_buffer) >= 60
ShouldFlush(buf) == Len(buf) >= BATCH_SIZE

SmallTopicBatch == MQTT_TOPIC_DATA_COLLECTION

\* the topic the callback of create_payload_timer publishes to
SmallTopic == MQTT_TOPIC

\* the topic the batched callback publishes to
BatchTopic == MQTT_TOPIC_DATA_COLLECTION

\* the except branch of send_mqtt reconnects and returns; it issues no second publish
SendMqttResends == FALSE

\* temperature_data_buffer.clear() / pressure_data_buffer.clear() after send_mqtt returned
ClearedAfterSend(buf) == << >>

MainAfterFallbackConnects == "connect_mqtt"

\* where main goes when serve_web has returned: past the else branch, to its end
MainAfterFallback == "main_end"

StrategyCallsAll(strat) == Strategies

\* the strategy functions main calls (one of the three calls of lines 238-240)
StrategyCalls(strat) == {strat}

CreateApRaisesOnException(outcome) == outcome = "exception"

\* create_ap catches every exception and logs an inactive access point
CreateApRaises(outcome) == FALSE

\* what becomes of an exception that leaves a timer callback: the dispatch of
\* machine.Timer decides it, not the program, so both outcomes are explored:
\* the timer machinery reports it and main stays in its idle loop, or it is
\* raised in main, inside the try block of the idle loop
CallbackExceptionOutcomes == {"reported", "raised_in_main"}

\* position of main (idle before) after an exception left a timer callback
MainAfterCallbackException(outcome) ==
    IF outcome = "raised_in_main" THEN "except" ELSE "idle"

\* interval of the timer a strategy installs
PeriodOf(strat) ==
    IF strat = "frequent_small_payload" THEN FREQUENT_PERIOD
    ELSE IF strat = "infrequent_small_payload" THEN INFREQUENT_PERIOD
    ELSE BATCH_PERIOD

\* the k-th normal reading of the driver (thousandths of a degree Celsius,
\* thousandths of a hPa); the first is t = 21.456, p = 1013.256
RawT(k) == 21446 + 10 * k
RawP(k) == 1013246 + 10 * k

\* what sensor.measurements can give when k - 1 normal readings were taken
\* before: the k-th normal reading and, while
\* unusual is allowed, a driver exception or a reading with a field that is or rounds to zero
SensorReads(k, unusual) ==
    { [ kind |-> "normal", t |-> RawT(k), p |-> RawP(k) ] }
    \cup (IF unusual
            THEN { [ kind |-> "fail", t |-> 0, p |-> 0 ],
                   [ kind |-> "zero_t", t |-> 0, p |-> RawP(k) ],
                   [ kind |-> "tiny_t", t |-> 4, p |-> RawP(k) ],
                   [ kind |-> "zero_p", t |-> RawT(k), p |-> 0 ] }
            ELSE {})

NoPub == [ topic |-> "none", tick |-> 0, ok |-> FALSE, samples |-> << >>, prev |-> 0 ]
NoRead == [ kind |-> "none" ]

\* ---------------------------------------------------------------------------
\* State
\* ---------------------------------------------------------------------------
VARIABLES
    strategy,       \* the strategy main installs (one of the three calls of lines 238-240)
    pc,             \* position of main
    wifiCaller,     \* who called connect_wifi: "main" | "serve_web" | "none"
    wifiArgs,       \* (ssid, password) of the running / last connect_wifi call
    retry_count,    \* retry_count of connect_wifi
    wifiSleep,      \* seconds slept inside the running connect_wifi
    wlanEverUp,     \* wlan.isconnected() returned True during the running / last call
    apState,        \* "none" | "active" | "inactive" | "exception"
    accepts,        \* s.accept() calls that returned a client
    recvs,          \* cl.recv() calls
    posts,          \* POST requests handled
    request_str,    \* text of the last request
    swJoin,         \* return value of connect_wifi inside serve_web
    context,        \* ssl_context() result: "unset" | "ctx" | "None"
    client,         \* client of connect_mqtt / mqtt_client: "None" | "tls" | "plain"
    connected,      \* the client holds a live session
    mqtt_retry,     \* retry_count of connect_mqtt
    connectCalls,   \* client.connect() calls made by connect_mqtt
    ctorFails,      \* MQTTClient(...) calls that raised in connect_mqtt
    mqttSleep,      \* seconds slept inside connect_mqtt
    timers,         \* periodic timers installed in this boot
    resets,         \* machine.reset() was called from main in this boot
    cb,             \* position of the timer callback: "none" | "reconnect"
    ticks,          \* timer callbacks started in this boot
    anomalies,      \* ticks so far whose sensor read was not a normal reading
    pubFails,       \* publish calls so far that failed on a connected client
    tbuf,           \* temperature_data_buffer
    pbuf,           \* pressure_data_buffer
    captured,       \* numbers of the normal readings appended since the previous flush
    pubCalls,       \* client.publish() calls in this boot
    lastPub,        \* the last client.publish() call: topic, payload, tick, outcome, the
                    \* numbers of the readings in a batch and of the last one published before
    tickPubs,       \* client.publish() calls of the current tick
    tickRead,       \* what the sensor read of the current tick gave
    tickPubFailed,  \* the publish of the current tick raised
    tickReconnected,\* reconnect_mqtt returned in the current tick
    tickFlushed,    \* the current tick cleared the buffers
    tickEscaped,    \* an exception left the callback of the current tick
    okRun,          \* consecutive ticks with a successful read and no publish call, up to now
    period,         \* period of the installed timer in ms (0: none)
    rcCalls,        \* client.connect() calls of the running reconnect_mqtt
    rcSleep,        \* seconds slept inside the running reconnect_mqtt
    rcErrors        \* RecursionErrors that left reconnect_mqtt in this boot

bootVars == <<pc, wifiCaller, wifiArgs, retry_count, wifiSleep, wlanEverUp, apState,
              accepts, recvs, posts, request_str, swJoin, context, client, connected,
              mqtt_retry, connectCalls, ctorFails, mqttSleep, timers, resets>>
wifiVars == <<wifiCaller, wifiArgs, retry_count, wifiSleep, wlanEverUp>>
webVars == <<apState, accepts, recvs, posts, request_str, swJoin>>
mqttVars == <<context, client, connected, mqtt_retry, connectCalls, ctorFails, mqttSleep>>

bufVars == <<tbuf, pbuf, captured>>
tickVars == <<cb, ticks, anomalies, pubFails, pubCalls, lastPub, tickPubs, tickRead,
              tickPubFailed, tickReconnected, tickFlushed, tickEscaped, okRun, period,
              rcCalls, rcSleep, rcErrors>>
timerVars == <<bufVars, tickVars>>

vars == <<strategy, bootVars, timerVars>>

BootInit ==
    /\ pc = "main"
    /\ wifiCaller = "none"
    /\ wifiArgs = NoCredentials
    /\ retry_count = 0
    /\ wifiSleep = 0
    /\ wlanEverUp = FALSE
    /\ apState = "none"
    /\ accepts = 0
    /\ recvs = 0
    /\ posts = 0
    /\ request_str = << >>
    /\ swJoin = "none"
    /\ context = "unset"
    /\ client = "None"
    /\ connected = FALSE
    /\ mqtt_retry = 0
    /\ connectCalls = 0
    /\ ctorFails = 0
    /\ mqttSleep = 0
    /\ timers = 0
    /\ resets = 0
    /\ cb = "none"
    /\ ticks = 0
    /\ anomalies = 0
    /\ pubFails = 0
    /\ tbuf = << >>
    /\ pbuf = << >>
    /\ captured = << >>
    /\ pubCalls = 0
    /\ lastPub = NoPub
    /\ tickPubs = 0
    /\ tickRead = NoRead
    /\ tickPubFailed = FALSE
    /\ tickReconnected = FALSE
    /\ tickFlushed = FALSE
    /\ tickEscaped = FALSE
    /\ okRun = 0
    /\ period = 0
    /\ rcCalls = 0
    /\ rcSleep = 0
    /\ rcErrors = 0

Init ==
    /\ strategy \in Strategies
    /\ BootInit

\* ---------------------------------------------------------------------------
\* connect_wifi
\* ---------------------------------------------------------------------------
\* entry of connect_wifi: wlan.active, wlan.connect, retry_count = 0
\* (raises = the driver call raised; the exception leaves connect_wifi)
EnterConnectWifi(caller, creds) ==
    /\ wifiCaller' = caller
    /\ wifiArgs' = creds
    /\ retry_count' = 0
    /\ wifiSleep' = 0
    /\ wlanEverUp' = FALSE

\* main: try: if not connect_wifi(SSID, PASSWORD)
MainConnectWifi ==
    /\ pc = "main"
    /\ EnterConnectWifi("main", KnownCredentials)
    /\ \E raises \in BOOLEAN :
          IF raises THEN pc' = "except" ELSE pc' = "wifi_loop"
    /\ UNCHANGED <<strategy, webVars, mqttVars, timers, resets, timerVars>>

\* one evaluation of the while condition and, when it holds, one pass of the body
ConnectWifiLoop ==
    /\ pc = "wifi_loop"
    /\ \E isconnected \in BOOLEAN :
          /\ wlanEverUp' = (wlanEverUp \/ isconnected)
          /\ IF WifiLoopCond(isconnected, retry_count)
                THEN /\ wifiSleep' = wifiSleep + WIFI_SLEEP
                     /\ retry_count' = retry_count + 1
                     /\ pc' = "wifi_loop"
                ELSE /\ pc' = "wifi_check"
                     /\ UNCHANGED <<wifiSleep, retry_count>>
    /\ UNCHANGED <<strategy, wifiCaller, wifiArgs, webVars, mqttVars, timers, resets, timerVars>>

\* if wlan.isconnected(): return True else: return False, and the caller's branch
ConnectWifiReturn ==
    /\ pc = "wifi_check"
    /\ \E isconnected \in BOOLEAN :
          /\ wlanEverUp' = (wlanEverUp \/ isconnected)
          /\ IF wifiCaller = "main"
                THEN /\ pc' = IF isconnected THEN "connect_mqtt" ELSE "create_ap"
                     /\ swJoin' = swJoin
                ELSE /\ pc' = "sw_respond"
                     /\ swJoin' = IF isconnected THEN "joined" ELSE "failed"
    /\ retry_count' = 0
    /\ wifiSleep' = 0
    /\ UNCHANGED <<strategy, wifiCaller, wifiArgs, apState, accepts, recvs, posts,
                   request_str, mqttVars, timers, resets, timerVars>>

\* ---------------------------------------------------------------------------
\* create_ap and serve_web
\* ---------------------------------------------------------------------------
\* create_ap: every outcome is logged and the function returns
CreateAp ==
    /\ pc = "create_ap"
    /\ apState' \in {"active", "inactive", "exception"}
    /\ pc' = IF CreateApRaises(apState') THEN "except" ELSE "serve_web"
    /\ UNCHANGED <<strategy, wifiVars, accepts, recvs, posts, request_str, swJoin,
                   mqttVars, timers, resets, timerVars>>

\* serve_web up to s.listen(1); an exception is caught by serve_web's handler
ServeWebListen ==
    /\ pc = "serve_web"
    /\ \E raises \in BOOLEAN :
          pc' = IF raises THEN MainAfterFallback ELSE "sw_accept"
    /\ UNCHANGED <<strategy, wifiVars, webVars, mqttVars, timers, resets, timerVars>>

\* one pass of the while True loop up to the call of connect_wifi
ServeWebAccept ==
    /\ pc = "sw_accept"
    /\ accepts < MaxAccepts
    /\ \/ \* s.accept() or cl.recv() raised
          /\ \E got \in BOOLEAN :
                /\ accepts' = accepts + (IF got THEN 1 ELSE 0)
                /\ recvs' = recvs + (IF got THEN 1 ELSE 0)
          /\ pc' = MainAfterFallback
          /\ UNCHANGED <<wifiVars, posts, request_str>>
       \/ \E request \in Requests :
             LET rs == StrOfBytes(request) IN
             /\ accepts' = accepts + 1
             /\ recvs' = recvs + 1
             /\ request_str' = rs
             /\ IF IsPost(rs)
                   THEN /\ posts' = posts + 1
                        /\ EnterConnectWifi("serve_web", ParseCredentials(rs))
                        /\ \E raises \in BOOLEAN :
                              pc' = IF raises THEN MainAfterFallback ELSE "wifi_loop"
                   ELSE /\ pc' = "sw_accept"
                        /\ UNCHANGED <<wifiVars, posts>>
    /\ UNCHANGED <<strategy, apState, swJoin, mqttVars, timers, resets, timerVars>>

\* the response, cl.close() and the break (or an exception of cl.send)
ServeWebRespond ==
    /\ pc = "sw_respond"
    /\ \E raises \in BOOLEAN :
          pc' = IF raises \/ ServeWebBreaks(IsPost(request_str)) THEN MainAfterFallback
                ELSE "sw_accept"
    /\ UNCHANGED <<strategy, wifiVars, webVars, mqttVars, timers, resets, timerVars>>

\* ---------------------------------------------------------------------------
\* connect_mqtt
\* ---------------------------------------------------------------------------
\* client = None, retry_count = 0, context = ssl_context()
ConnectMqttBegin ==
    /\ pc = "connect_mqtt"
    /\ context' \in {"ctx", "None"}
    /\ client' = "None"
    /\ mqtt_retry' = 0
    /\ pc' = "mqtt_loop"
    /\ UNCHANGED <<strategy, wifiVars, webVars, connected, connectCalls, ctorFails,
                   mqttSleep, timers, resets, timerVars>>

\* one evaluation of the while condition and, when it holds, one pass of the
\* try block: the constructor raises, client.connect() raises, or both return
ConnectMqttLoop ==
    /\ pc = "mqtt_loop"
    /\ IF MqttLoopCond(client, mqtt_retry)
          THEN \E outcome \in {"ctor_raises", "connect_raises", "connected"} :
                  /\ client' = IF outcome = "ctor_raises" THEN client
                               ELSE ClientAfterConstruct(context = "ctx")
                  /\ ctorFails' = ctorFails + (IF outcome = "ctor_raises" THEN 1 ELSE 0)
                  /\ connectCalls' = connectCalls + (IF outcome = "ctor_raises" THEN 0 ELSE 1)
                  /\ connected' = (outcome = "connected")
                  /\ IF outcome = "connected"
                        THEN UNCHANGED <<mqtt_retry, mqttSleep>>
                        ELSE /\ mqtt_retry' = mqtt_retry + 1
                             /\ mqttSleep' = mqttSleep + MQTT_SLEEP
                  /\ pc' = "mqtt_loop"
          ELSE /\ pc' = "mqtt_exit"
               /\ UNCHANGED <<client, ctorFails, connectCalls, connected,
                              mqtt_retry, mqttSleep>>
    /\ UNCHANGED <<strategy, wifiVars, webVars, context, timers, resets, timerVars>>

\* if client is None: raise ConnectionError, else return client (to main)
ConnectMqttReturn ==
    /\ pc = "mqtt_exit"
    /\ pc' = IF client = "None" THEN "except" ELSE "install"
    /\ mqtt_retry' = 0
    /\ connectCalls' = 0
    /\ ctorFails' = 0
    /\ mqttSleep' = 0
    /\ UNCHANGED <<strategy, wifiVars, webVars, context, client, connected,
                   timers, resets, timerVars>>

\* ---------------------------------------------------------------------------
\* main: timer installation, the except branch, the restart
\* ---------------------------------------------------------------------------
\* the strategy call of main: machine.Timer(period, PERIODIC, callback), then
\* main enters while True: time.sleep(10)
InstallTimer ==
    /\ pc = "install"
    /\ \E raises \in BOOLEAN :
          IF raises
             THEN \* machine.Timer(...) raised: main's except branch
                  /\ pc' = "except"
                  /\ UNCHANGED <<timers, period>>
             ELSE /\ timers' = timers + Cardinality(StrategyCalls(strategy))
                  /\ period' = PeriodOf(strategy)
                  /\ pc' = "idle"
    /\ UNCHANGED <<strategy, wifiVars, webVars, mqttVars, resets, bufVars, cb, ticks,
                   anomalies, pubFails, pubCalls, lastPub, tickPubs, tickRead,
                   tickPubFailed, tickReconnected, tickFlushed, tickEscaped, okRun,
                   rcCalls, rcSleep, rcErrors>>

\* except Exception: machine.reset()
MainExcept ==
    /\ pc = "except"
    /\ resets' = resets + 1
    /\ pc' = "reset"
    /\ UNCHANGED <<strategy, wifiVars, webVars, mqttVars, timers, timerVars>>

\* the device restarts and runs the program from the top
Restart ==
    /\ pc = "reset"
    /\ pc' = "main"
    /\ wifiCaller' = "none"
    /\ wifiArgs' = NoCredentials
    /\ retry_count' = 0
    /\ wifiSleep' = 0
    /\ wlanEverUp' = FALSE
    /\ apState' = "none"
    /\ accepts' = 0
    /\ recvs' = 0
    /\ posts' = 0
    /\ request_str' = << >>
    /\ swJoin' = "none"
    /\ context' = "unset"
    /\ client' = "None"
    /\ connected' = FALSE
    /\ mqtt_retry' = 0
    /\ connectCalls' = 0
    /\ ctorFails' = 0
    /\ mqttSleep' = 0
    /\ timers' = 0
    /\ resets' = 0
    /\ cb' = "none"
    /\ ticks' = 0
    /\ anomalies' = 0
    /\ pubFails' = 0
    /\ tbuf' = << >>
    /\ pbuf' = << >>
    /\ captured' = << >>
    /\ pubCalls' = 0
    /\ lastPub' = NoPub
    /\ tickPubs' = 0
    /\ tickRead' = NoRead
    /\ tickPubFailed' = FALSE
    /\ tickReconnected' = FALSE
    /\ tickFlushed' = FALSE
    /\ tickEscaped' = FALSE
    /\ okRun' = 0
    /\ period' = 0
    /\ rcCalls' = 0
    /\ rcSleep' = 0
    /\ rcErrors' = 0
    /\ UNCHANGED strategy

\* ---------------------------------------------------------------------------
\* Timer callbacks
\* ---------------------------------------------------------------------------
\* outcomes of client.publish(): it raises on a client without a live session
PublishOutcomes ==
    IF ~connected THEN {FALSE}
    ELSE IF pubFails < MaxPubFail THEN {TRUE, FALSE} ELSE {TRUE}

\* send_mqtt up to the publish call; on an exception the callback is left
\* inside reconnect_mqtt
SendMqtt(topic, data, samples, ok) ==
    /\ pubCalls' = pubCalls + 1
    /\ tickPubs' = 1
    /\ lastPub' = [ topic |-> topic, payload |-> data, tick |-> ticks + 1, ok |-> ok,
                     samples |-> samples,
                     prev |-> IF lastPub.samples = << >> THEN lastPub.prev
                              ELSE lastPub.samples[Len(lastPub.samples)] ]
    /\ pubFails' = IF ~ok /\ connected THEN pubFails + 1 ELSE pubFails
    /\ connected' = ok
    /\ tickPubFailed' = ~ok
    /\ cb' = IF ok THEN "none" ELSE "reconnect"

NoSendMqtt ==
    /\ tickPubs' = 0
    /\ tickPubFailed' = FALSE
    /\ UNCHANGED <<pubCalls, lastPub, pubFails, connected, cb>>

TickStart(rd) ==
    /\ pc = "idle"
    /\ timers > 0
    /\ cb = "none"
    /\ ticks < MaxTicks
    /\ ticks' = ticks + 1
    /\ anomalies' = anomalies + (IF rd.kind = "normal" THEN 0 ELSE 1)
    /\ tickRead' = rd
    /\ tickReconnected' = FALSE

\* callback of create_payload_timer: process_data, then send_mqtt when it
\* returned data
PayloadCallback ==
    /\ strategy \in {"frequent_small_payload", "infrequent_small_payload"}
    /\ \E rd \in SensorReads(ticks + 1 - anomalies, anomalies < MaxAnomalies) :
          /\ TickStart(rd)
          /\ IF rd.kind = "fail"
                THEN /\ NoSendMqtt
                     /\ okRun' = 0
                ELSE /\ \E ok \in PublishOutcomes :
                           LET m == GetSensorMeasurements(rd)
                           IN SendMqtt(SmallTopic, FormatData(m.t, m.p), << >>, ok)
                     /\ okRun' = 0
    /\ tickEscaped' = FALSE
    /\ UNCHANGED <<strategy, pc, wifiVars, webVars, context, client, mqtt_retry,
                   connectCalls, ctorFails, mqttSleep, timers, resets,
                   bufVars, tickFlushed, period, rcCalls, rcSleep, rcErrors>>

\* callback of infrequent_large_payload
BatchCallback ==
    /\ strategy = "infrequent_large_payload"
    /\ \E rd \in SensorReads(ticks + 1 - anomalies, anomalies < MaxAnomalies) :
          /\ TickStart(rd)
          /\ IF rd.kind = "fail"
                THEN \* get_sensor_measurements raises and nothing catches it
                     /\ NoSendMqtt
                     /\ tickEscaped' = TRUE
                     /\ tickFlushed' = FALSE
                     /\ okRun' = 0
                     /\ \E outcome \in CallbackExceptionOutcomes :
                           pc' = MainAfterCallbackException(outcome)
                     /\ UNCHANGED bufVars
                ELSE LET m == GetSensorMeasurements(rd)
                         app == ShouldAppend(m.t, m.p)
                         nt == IF app THEN Append(tbuf, m.t) ELSE tbuf
                         np == IF app THEN Append(pbuf, m.p) ELSE pbuf
                         nc == IF app THEN Append(captured, ticks + 1 - anomalies) ELSE captured
                     IN /\ tickEscaped' = FALSE
                        /\ pc' = pc
                        /\ IF ShouldFlush(nt)
                              THEN \E ok \in PublishOutcomes :
                                      /\ SendMqtt(BatchTopic, FormatData(nt, np), nc, ok)
                                      /\ okRun' = 0
                                      /\ IF ok
                                            THEN /\ tbuf' = ClearedAfterSend(nt)
                                                 /\ pbuf' = ClearedAfterSend(np)
                                                 /\ captured' = ClearedAfterSend(nc)
                                                 /\ tickFlushed' = TRUE
                                            ELSE /\ tbuf' = nt
                                                 /\ pbuf' = np
                                                 /\ captured' = nc
                                                 /\ tickFlushed' = FALSE
                              ELSE /\ NoSendMqtt
                                   /\ okRun' = okRun + 1
                                   /\ tbuf' = nt
                                   /\ pbuf' = np
                                   /\ captured' = nc
                                   /\ tickFlushed' = FALSE
    /\ UNCHANGED <<strategy, wifiVars, webVars, context, client, mqtt_retry,
                   connectCalls, ctorFails, mqttSleep, timers, resets,
                   period, rcCalls, rcSleep, rcErrors>>

\* reconnect_mqtt from its next client.connect() on: the call succeeds and
\* reconnect_mqtt and send_mqtt return, so the callback runs to its end; or it
\* fails, with a sleep and a recursive call; or it and every later call fail
\* until the recursion ends with RecursionError, which no try of
\* reconnect_mqtt, send_mqtt or the callback catches
ReconnectMqtt ==
    /\ pc = "idle"
    /\ cb = "reconnect"
    /\ \E fails \in {0, 1, CallbackReconnectDepth - rcCalls} :
          /\ fails = 1 => rcCalls < MaxReconnect
          /\ fails > 1 => rcErrors < MaxRecursionErrors
          /\ IF fails = 0
                THEN /\ rcCalls' = 0
                     /\ rcSleep' = 0
                     /\ cb' = "none"
                     /\ connected' = TRUE
                     /\ tickReconnected' = TRUE
                     /\ IF SendMqttResends
                           THEN /\ pubCalls' = pubCalls + 1
                                /\ tickPubs' = tickPubs + 1
                                /\ lastPub' = [ lastPub EXCEPT !.ok = TRUE ]
                           ELSE UNCHANGED <<pubCalls, tickPubs, lastPub>>
                     /\ IF strategy = "infrequent_large_payload"
                           THEN /\ tbuf' = ClearedAfterSend(tbuf)
                                /\ pbuf' = ClearedAfterSend(pbuf)
                                /\ captured' = ClearedAfterSend(captured)
                                /\ tickFlushed' = TRUE
                           ELSE UNCHANGED <<bufVars, tickFlushed>>
                     /\ UNCHANGED <<pc, tickEscaped, rcErrors>>
                ELSE IF ReconnectRetries(rcCalls + fails, CALLBACK_FRAMES)
                THEN /\ rcCalls' = rcCalls + fails
                     /\ rcSleep' = rcSleep + RECONNECT_SLEEP * fails
                     /\ UNCHANGED <<pc, cb, connected, tickReconnected, bufVars, tickFlushed,
                                    pubCalls, tickPubs, lastPub, tickEscaped, rcErrors>>
                ELSE /\ rcCalls' = 0
                     /\ rcSleep' = 0
                     /\ cb' = "none"
                     /\ tickEscaped' = TRUE
                     /\ rcErrors' = rcErrors + 1
                     /\ \E outcome \in CallbackExceptionOutcomes :
                           pc' = MainAfterCallbackException(outcome)
                     /\ UNCHANGED <<connected, tickReconnected, bufVars, tickFlushed,
                                    pubCalls, tickPubs, lastPub>>
    /\ UNCHANGED <<strategy, wifiVars, webVars, context, client, mqtt_retry,
                   connectCalls, ctorFails, mqttSleep, timers, resets,
                   ticks, anomalies, pubFails, tickRead, tickPubFailed,
                   okRun, period>>

\* ---------------------------------------------------------------------------
\* Specification
\* ---------------------------------------------------------------------------
Next ==
    \/ MainConnectWifi
    \/ ConnectWifiLoop
    \/ ConnectWifiReturn
    \/ CreateAp
    \/ ServeWebListen
    \/ ServeWebAccept
    \/ ServeWebRespond
    \/ ConnectMqttBegin
    \/ ConnectMqttLoop
    \/ ConnectMqttReturn
    \/ InstallTimer
    \/ MainExcept
    \/ Restart
    \/ PayloadCallback
    \/ BatchCallback
    \/ ReconnectMqtt

Spec == Init /\ [][Next]_vars

\* ---------------------------------------------------------------------------
\* Properties
\* ---------------------------------------------------------------------------
Batched == strategy = "infrequent_large_payload"

\* C1 (as claimed): when the constructor works and every client.connect() of
\* connect_mqtt fails, connect_mqtt leaves its loop after exactly 5 connect
\* calls and 5 sleeps of 5 seconds with no client to return, so it raises.
C1_FiveAttemptsThenRaise ==
    (pc = "mqtt_exit" /\ ~connected /\ ctorFails = 0)
        => (connectCalls = 5 /\ mqttSleep = 5 * 5 /\ client = "None")

\* C2 (as claimed): inside reconnect_mqtt every failed connect is followed by a 5-second
\* sleep and a further attempt, whatever the number of failures so far, and
\* the only way out is a connect call that succeeded.
C2_ReconnectNeverGivesUp ==
    /\ [](cb = "reconnect" => (~connected /\ rcSleep = RECONNECT_SLEEP * rcCalls))
    /\ [][cb = "reconnect" =>
            \/ /\ cb' = "reconnect"
               /\ rcCalls' = rcCalls + 1
               /\ rcSleep' = rcSleep + 5
               /\ ~connected'
            \/ /\ cb' = "none"
               /\ connected'
               /\ tickReconnected']_vars

\* C3: the retry counter of connect_wifi never exceeds 5; when the join never
\* succeeds the loop ends after exactly 5 passes, one second each, connect_wifi
\* returns failure and main goes to create_ap and then to serve_web.
C3_WifiFiveAttemptsThenFallback ==
    /\ [](retry_count <= 5)
    /\ []((pc = "wifi_check" /\ ~wlanEverUp) => (retry_count = 5 /\ wifiSleep = 5))
    /\ [][(pc = "wifi_check" /\ wifiCaller = "main" /\ ~wlanEverUp') => pc' = "create_ap"]_vars
    /\ [][pc = "create_ap" => pc' = "serve_web"]_vars

C3_Witness == pc = "serve_web" /\ wifiCaller = "main" /\ ~wlanEverUp /\ apState # "none"

\* C4 (as claimed): under the batched strategy the two buffers always have the same length,
\* at most 60, and once a tick that published a batch has returned both are empty.
C4_BufferInvariant ==
    Batched =>
        /\ Len(tbuf) = Len(pbuf)
        /\ Len(tbuf) <= 60
        /\ (cb = "none" /\ tickPubs = 1) => (tbuf = << >> /\ pbuf = << >>)

\* C5 (as claimed): under the batched strategy the reading of every tick whose
\* sensor read succeeded is the last sample of the buffers (or of the batch
\* published on that tick), and there is no run of 60 successful ticks without
\* a batch publish.
C5_EverySuccessfulReadingAppended ==
    Batched =>
        /\ (cb = "none" /\ tickRead.kind \notin {"none", "fail"}) =>
              LET m == GetSensorMeasurements(tickRead) IN
              IF tickPubs = 1
                 THEN /\ lastPub.payload.temperature[Len(lastPub.payload.temperature)] = m.t
                      /\ lastPub.payload.pressure[Len(lastPub.payload.pressure)] = m.p
                 ELSE /\ tbuf # << >>
                      /\ tbuf[Len(tbuf)] = m.t
                      /\ pbuf[Len(pbuf)] = m.p
                      /\ captured[Len(captured)] = ticks - anomalies
        /\ okRun < 60

\* C6 (as claimed): under the batched strategy every publish goes to the batch topic and
\* carries exactly 60 temperatures and 60 pressures, the i-th pair being the
\* rounded reading of the i-th sample captured since the previous publish, in
\* capture order, and a tick publishes only its own batch.
C6_BatchPublishShape ==
    (Batched /\ pubCalls > 0) =>
        /\ lastPub.topic = MQTT_TOPIC_DATA_COLLECTION
        /\ lastPub.topic # MQTT_TOPIC
        /\ Len(lastPub.payload.temperature) = 60
        /\ Len(lastPub.payload.pressure) = 60
        /\ Len(lastPub.samples) = 60
        /\ \A i \in 1..60 :
              /\ lastPub.payload.temperature[i] = Round2(RawT(lastPub.samples[i]))
              /\ lastPub.payload.pressure[i] = Round2(RawP(lastPub.samples[i]))
              /\ lastPub.samples[i] = lastPub.prev + i
        /\ tickPubs = 1 => lastPub.tick = ticks

\* C7 (as claimed): once connect_mqtt is over without any successful connect
\* (the client holds no session and no tick has run yet), main is in its except
\* branch or has reset the device, and no timer is installed.
C7_UnreachableBrokerResets ==
    (context # "unset" /\ pc \notin {"connect_mqtt", "mqtt_loop", "mqtt_exit"} /\ ticks = 0 /\ ~connected)
        => (pc \in {"except", "reset"} /\ timers = 0)

\* C8 (as claimed): serve_web accepts one connection and reads one request at
\* most, and is not back at accept once it has read a request.
C8_ExactlyOneRequest ==
    /\ accepts <= 1
    /\ recvs <= 1
    /\ recvs = 1 => pc # "sw_accept"

\* C9 (as claimed): after a POST whose text lacks the ssid= or the password=
\* marker, connect_wifi is not running or finished on behalf of serve_web.
C9_MissingMarkerRejected ==
    (posts > 0 /\ (Find(request_str, MarkPassword, 0) < 0 \/ Find(request_str, MarkSsid, 0) < 0))
        => wifiCaller # "serve_web"

\* C10 (as claimed): a tick issues at most one publish call; the callback is left inside
\* reconnect_mqtt exactly after a failed publish and returns only after a
\* successful connect; the failed payload stays the last publish call until a
\* later tick; a small payload is the reading of its own tick and no sample of
\* a batch was captured before the previous publish.
C10_ReconnectBeforeReturnNoResend ==
    /\ [](tickPubs <= 1)
    /\ [](cb = "reconnect" => tickPubFailed)
    /\ []((cb = "none" /\ tickPubFailed) => (tickReconnected /\ connected))
    /\ [](tickPubFailed => (lastPub.tick = ticks /\ ~lastPub.ok))
    /\ [](pubCalls > 0 => \A i \in 1..Len(lastPub.samples) : lastPub.samples[i] > lastPub.prev)
    /\ []((~Batched /\ tickPubs > 0) =>
             LET m == GetSensorMeasurements(tickRead)
             IN lastPub.payload = FormatData(m.t, m.p))
    /\ [][pubCalls' > pubCalls => (ticks' = ticks + 1 /\ pubCalls' = pubCalls + 1)]_vars

\* C11 (as claimed): in every strategy a tick whose sensor read raised has
\* returned without letting an exception out of the callback, without a
\* publish call and with the buffers as they were (nothing appended).
C11_SensorFailureIsNoData ==
    (tickRead.kind = "fail" /\ cb = "none") =>
        /\ ~tickEscaped
        /\ tickPubs = 0
        /\ Len(tbuf) = Len(captured)
        /\ Len(pbuf) = Len(captured)

\* C12: under the two small strategies a tick whose read succeeded has issued
\* exactly one publish call, to the small-payload topic, carrying the rounded
\* reading of that tick; a tick whose read failed has issued none; the buffers
\* stay empty and nothing goes to the batch topic.
C12_SmallStrategiesPublishEachReading ==
    ~Batched =>
        /\ tbuf = << >> /\ pbuf = << >>
        /\ pubCalls > 0 => (lastPub.topic = MQTT_TOPIC /\ lastPub.topic # MQTT_TOPIC_DATA_COLLECTION)
        /\ tickRead.kind = "fail" => tickPubs = 0
        /\ tickRead.kind \notin {"none", "fail"} =>
              /\ tickPubs = 1
              /\ lastPub.tick = ticks
              /\ lastPub.payload = [ temperature |-> Round2(tickRead.t),
                                     pressure |-> Round2(tickRead.p) ]

C12_Witness ==
    /\ strategy = "frequent_small_payload"
    /\ period = 1000
    /\ ticks = 1
    /\ lastPub.ok
    /\ lastPub.payload = [ temperature |-> 2146, pressure |-> 101326 ]

\* the text x holds one of the four markers of the form parser
HasMarker(x) == \E m \in {MarkSsid, MarkAmp, MarkPassword, MarkHttp} : Find(x, m, 0) >= 0

\* the form "ssid=S&password=P HTTP" read at index i of the text rs, S and P
\* ending at the first "&" and the first " HTTP" that follow
FormAt(rs, i) ==
    LET amp == Find(rs, MarkAmp, i + 5)
        pstart == amp + 1 + 9
        http == Find(rs, MarkHttp, pstart)
    IN [ at |-> i, amp |-> amp,
         found |-> /\ Find(rs, MarkSsid, i) = i
                   /\ amp >= 0
                   /\ Find(rs, MarkPassword, amp + 1) = amp + 1
                   /\ http >= 0,
         ssid |-> Slice(rs, i + 5, amp),
         password |-> Slice(rs, pstart, http) ]

\* the forms "ssid=S&password=P HTTP" the text rs contains, S and P free of the markers
FormsIn(rs) ==
    { f \in { FormAt(rs, i) : i \in 0..Len(rs) } :
         f.found /\ ~HasMarker(f.ssid) /\ ~HasMarker(f.password) }

\* C13 (as claimed): whenever serve_web has called connect_wifi for a request
\* text that contains ssid=S&password=P HTTP with S and P free of the markers,
\* the arguments of the call are ssid = S and password = P.
C13_FormFieldsExtracted ==
    wifiCaller = "serve_web" =>
        \A f \in FormsIn(request_str) :
            wifiArgs = [ ssid |-> f.ssid, password |-> f.password ]

\* C13 (amended): the same for the forms whose ssid= and password= markers are
\* the first occurrences of these markers in the request text.
C13_FirstFormFieldsExtracted ==
    wifiCaller = "serve_web" =>
        \A f \in FormsIn(request_str) :
            (Find(request_str, MarkSsid, 0) = f.at /\ Find(request_str, MarkPassword, 0) = f.amp + 1)
                => wifiArgs = [ ssid |-> f.ssid, password |-> f.password ]

C13_Witness ==
    /\ wifiCaller = "serve_web"
    /\ request_str = StrOfBytes(ReqPostFull)
    /\ FormsIn(request_str) # {}
    /\ wifiArgs = [ ssid |-> Chars(<<"M","y","N","e","t">>),
                    password |-> Chars(<<"s","e","c","r","e","t">>) ]

\* positions of main on the fallback path and inside connect_mqtt
FallbackPcs == {"create_ap", "serve_web", "sw_accept", "sw_respond", "main_end"}
MqttPcs == {"connect_mqtt", "mqtt_loop", "mqtt_exit"}

\* C14 (as claimed): a timer is installed, and a tick or a publish happens,
\* only after connect_wifi returned success to main and a client.connect() of
\* connect_mqtt succeeded: before its first tick an installed timer holds a
\* client with a live session.
C14_TimerOnlyAfterSession ==
    /\ (ticks > 0 \/ pubCalls > 0) => timers > 0
    /\ (pc = "install" \/ timers > 0) => (wifiCaller = "main" /\ wlanEverUp /\ client # "None")
    /\ ((pc = "install" \/ timers > 0) /\ ticks = 0) => connected

\* C15 (as claimed): under the batched strategy a tick whose batch publish failed returns
\* with both buffers empty; the samples of a batch are never those of an
\* earlier publish call, and the next batch holds the 60 samples captured
\* after the lost ones.
C15_FailedBatchIsDroppedOnce ==
    Batched =>
        /\ (cb = "none" /\ tickPubFailed) =>
              (tbuf = << >> /\ pbuf = << >> /\ captured = << >> /\ ~lastPub.ok)
        /\ (cb = "none" /\ pubCalls > 0) =>
              /\ Len(tbuf) = Len(captured)
              /\ \A i \in 1..Len(captured) :
                    /\ captured[i] > lastPub.samples[Len(lastPub.samples)]
                    /\ tbuf[i] = Round2(RawT(captured[i]))
                    /\ pbuf[i] = Round2(RawP(captured[i]))
        /\ pubCalls > 0 =>
              /\ lastPub.samples[1] = lastPub.prev + 1
              /\ lastPub.payload.temperature[1] = Round2(RawT(lastPub.prev + 1))
              /\ Len(lastPub.payload.temperature) = BATCH_SIZE

\* C16: in a boot that entered the fallback path no TLS context is built, no
\* client is constructed or connected, no timer is installed, no tick runs and
\* nothing is published, also after a join with the submitted credentials; main
\* stays on the fallback path until it ends.
C16_FallbackIsTerminal ==
    /\ []((pc \in FallbackPcs \/ wifiCaller = "serve_web" \/ apState # "none") =>
            /\ pc \notin MqttPcs \cup {"install", "idle", "except", "reset"}
            /\ context = "unset"
            /\ client = "None"
            /\ ~connected
            /\ connectCalls = 0
            /\ timers = 0
            /\ ticks = 0
            /\ pubCalls = 0)
    /\ [][(pc \in FallbackPcs) => (pc' \in FallbackPcs \cup {"wifi_loop"})]_vars
    /\ [][wifiCaller = "serve_web" => (pc' \in FallbackPcs \cup {"wifi_loop", "wifi_check"})]_vars

C16_Witness == pc = "main_end" /\ swJoin = "joined" /\ wlanEverUp /\ timers = 0

\* C17: at most one periodic timer is installed; it is installed by main on
\* entering its idle loop and stays the only one until the device restarts, has
\* the period of the one strategy of this boot, and every publish goes to the
\* topic of that strategy.
C17_OneTimerOneStrategy ==
    /\ timers <= 1
    /\ pc = "idle" => timers = 1
    /\ timers = 1 => pc \in {"idle", "except", "reset"}
    /\ timers = 1 => period = PeriodOf(strategy)
    /\ timers = 0 => (period = 0 /\ ticks = 0)
    /\ pubCalls > 0 =>
          lastPub.topic = (IF Batched THEN MQTT_TOPIC_DATA_COLLECTION ELSE MQTT_TOPIC)

C17_Witness == timers = 1 /\ ticks > 1 /\ pubCalls > 1 /\ period = 60000

\* C18: create_ap always returns to main, which goes on to serve_web; an
\* access point that is inactive or whose set-up raised never brings main to
\* its except branch or to machine.reset.
C18_ApFailureNotRaised ==
    /\ [](apState \in {"inactive", "exception"} =>
            (pc \notin {"except", "reset"} /\ resets = 0))
    /\ [][pc = "create_ap" => (pc' = "serve_web" /\ resets' = 0)]_vars

C18_Witness == apState = "exception" /\ pc = "sw_accept" /\ resets = 0

\* C19: connect_mqtt goes on to its connect loop whatever ssl_context
\* returned; the loop is bounded the same way in both cases, and a client
\* exists with the TLS context exactly when the context was built.
C19_TlsFallback ==
    /\ [][pc = "connect_mqtt" => pc' = "mqtt_loop"]_vars
    /\ [](mqtt_retry <= 5 /\ connectCalls + ctorFails <= 5)
    /\ [](client = "tls" => context = "ctx")
    /\ [](client = "plain" => context = "None")
    /\ [](pc \in MqttPcs \ {"connect_mqtt"} => context \in {"ctx", "None"})

C19_Witness == context = "None" /\ client = "plain" /\ connected /\ pc = "idle" /\ ticks = 0

====
